---- MODULE Spec2Model ----
(***************************************************************************)
(* Stream ingestion, recovery and task gating of mindecho.                 *)
(*                                                                         *)
(* The pipeline part models the two event orchestrators                    *)
(* (services/xiaohongshu_event_handler.py, services/stream_event_handler.py)*)
(* running as detached asyncio tasks over one shared database, together    *)
(* with the deferred detail-fetch retries.  Every step of an action is the *)
(* code between two suspension points (await) of one coroutine.            *)
(*                                                                         *)
(* Each event handler and each deferred retry opens its own session        *)
(* (AsyncSessionLocal, expire_on_commit=False): an object loaded in a      *)
(* session keeps the attribute values it was loaded with until that        *)
(* session refreshes it.  hsnap / rsnap are these per-session objects.     *)
(*                                                                         *)
(* Time is kept relative: every timestamp is one of                        *)
(*   "never"  - no attempt recorded                                        *)
(*   "recent" - less than retry_delay ago                                  *)
(*   "due"    - at least retry_delay and at most 24 hours ago              *)
(*   "old"    - more than 24 hours ago                                     *)
(***************************************************************************)
EXTENDS Integers, Sequences, FiniteSets, TLC

Handlers == {"h1", "h2"}          \* concurrently running handle_stream_event tasks
ItemIds == {"A1", "B1"}           \* external item ids (platform_item_id)
UserIds == {"u1", "u2"}           \* external user ids (platform_user_id) of creators
Retries == {"r1", "r2"}           \* concurrently pending _schedule_retry tasks
Platforms == {"xiaohongshu", "bilibili"}
StreamIds == {"s1", "s2"}         \* stream ids (subscription ids)
EventHandlers == {"f", "g"}       \* coroutines given to register_event_handler

MaxBatch == 3                     \* longest event batch
MaxTasks == 2                     \* most Task rows kept per item
MaxLoops == 3                     \* most _run_stream_task tasks ever created
MaxRuns == 3                      \* most run_workshop_task calls under way
MaxRaw == 2                       \* longest raw item list of a plugin payload
MaxEvents == 1                    \* most events the streams deliver

FIRST_SYNC_THRESHOLD == 50
XIAOHONGSHU_DETAILS_MAX_RETRY_ATTEMPTS == 5
BILIBILI_DETAILS_MAX_RETRY_ATTEMPTS == 5
HardcodedMaxAttempts == 5         \* max_attempts local of the Xiaohongshu _needs_recovery
LlmChatLimit == 1                 \* ConcurrencyConfig(limit=1) of llm_chat

\* Values the factory can be called with; 0 stands for None / not given.
MaxAttemptsParams == {0, 2}

VARIABLES
    platform,               \* platform the subscription's plugin belongs to
    max_attempts,           \* DefaultXiaohongshuDetailsSyncer.max_attempts
    first_sync_threshold,   \* orchestrator.first_sync_threshold
    first_sync_threshold_arg, \* the argument __init__ was given (0: None / not given)
    favorite_items,         \* table favorite_items (with its 1:1 detail row), by external id
    tasks,                  \* table tasks: per item the statuses of its Task rows
    hpc,                    \* handler position
    hitems,                 \* event_data.items
    hidx,                   \* loop cursor of the current stage
    hnew,                   \* PersistResult.newly_created
    hrec,                   \* PersistResult.needs_recovery
    hwith,                  \* items_with_details
    hsnap,                  \* the handler session's loaded FavoriteItem objects
    hrun,                   \* what this run did: detail fetches issued, Tasks created
    rstate,                 \* deferred retry position
    ritem,                  \* note_id of the deferred retry
    rsnap,                  \* the retry session's loaded FavoriteItem object
    _tasks,                 \* StreamManager._tasks: stream id -> its asyncio task
    _remote_task_ids,       \* StreamManager._remote_task_ids
    _running,               \* StreamManager._running
    _on_event,              \* StreamManager._on_event
    lstate,                 \* position of each _run_stream_task task
    lstream,                \* its stream_id argument
    lcancel,                \* task.cancel() was called and is not yet delivered
    remote_tasks,           \* plugin tasks started on the remote service
    deletes,                \* ids client.delete_task was asked to delete
    dispatched,             \* detached self._on_event(event) tasks created
    semaphore,              \* free permits of the llm_chat ConcurrencyConfig.semaphore
    runpc,                  \* position of each run_workshop_task
    event,                  \* the raw event handle_event was called with
    event_data,             \* what the platform's parser made of it
    ppc,                    \* how far handle_event got with that event
    collection_id_of,       \* FavoriteItem.collection_id by external id, "none": no row
    authors,                \* table authors: number of rows per external user id
    ensure                  \* per handler: where it is with the authors of its batch

cfgVars == <<platform, max_attempts, first_sync_threshold, first_sync_threshold_arg>>
handlerVars == <<hpc, hitems, hidx, hnew, hrec, hwith, hsnap, hrun>>
retryVars == <<rstate, ritem, rsnap>>
execVars == <<semaphore, runpc>>
authorVars == <<authors, ensure>>
parseVars == <<event, event_data, ppc, collection_id_of, authorVars>>
pipelineVars == <<cfgVars, parseVars, execVars, favorite_items, tasks, handlerVars, retryVars>>
streamVars == <<_tasks, _remote_task_ids, _running, _on_event, lstate, lstream, lcancel,
                remote_tasks, deletes, dispatched>>

vars == <<pipelineVars, streamVars>>

TaskStatus == {"pending", "in_progress", "success", "failure"}

\* A favorite_items row.  rows is the number of rows with this external id.
NoRow == [rows |-> 0, attempts |-> 0, last |-> "never", details |-> "none"]

NoRun == [fetched |-> {}, created |-> {}]

\* The _run_stream_task tasks, in the order start_stream creates them.
Loops == 1..MaxLoops
NoLoop == 0

\* Sequences over S of length 1..n.
RECURSIVE SeqsUpTo(_, _)
SeqsUpTo(S, n) ==
    IF n = 0 THEN {<<>>}
    ELSE LET shorter == SeqsUpTo(S, n - 1)
         IN  shorter \cup {Append(s, x) : s \in {t \in shorter : Len(t) = n - 1}, x \in S}

Batches == SeqsUpTo(ItemIds, MaxBatch) \ {<<>>}

\* The run_workshop_task calls that are under way at the same time.
Runs == 1..MaxRuns

\* Workshop.executor_type values: the registered one and one the registry
\* does not know.
ExecutorTypes == {"llm_chat", "openai_api"}

\* Raw item dicts of a plugin payload: the external id field ("" when the
\* dict has none) and a collection_id field ("" when the dict has none).
RawItemDicts ==
    {[id |-> i, collection_id |-> ""] : i \in ItemIds \cup {""}}
    \cup {[id |-> "A1", collection_id |-> "c2"]}

RawLists == SeqsUpTo(RawItemDicts, MaxRaw)

\* data["added"]: missing, or a map with a "data" list.
AddedBlocks ==
    {[present |-> FALSE, data |-> <<>>]} \cup {[present |-> TRUE, data |-> l] : l \in RawLists}

\* Events whose payload.result.data is not a map with item lists: the level
\* at which the structure ends.
BrokenShapes ==
    {"no_payload", "payload_not_map", "no_result", "result_not_map", "no_data",
     "data_not_map", "items_not_list"}

\* The events a stream delivers, with the params the stream manager has
\* injected (collection "c1").
Events ==
    {[shape |-> "ok", success |-> ok, added |-> a, data |-> d, collection_id |-> "c1"] :
        ok \in BOOLEAN, a \in AddedBlocks, d \in RawLists}
    \cup
    {[shape |-> sh, success |-> TRUE, added |-> [present |-> FALSE, data |-> <<>>],
      data |-> <<>>, collection_id |-> "c1"] : sh \in BrokenShapes}

NoEvent ==
    [shape |-> "none", success |-> FALSE, added |-> [present |-> FALSE, data |-> <<>>],
     data |-> <<>>, collection_id |-> ""]

NoEventData == [items |-> <<>>, raised |-> FALSE]

\* External ids a brief item can carry: str(None) is "None".
BriefIds == ItemIds \cup {"None"}


(***************************************************************************)
(* Pure parts                                                              *)
(***************************************************************************)

\* "details exist": Xiaohongshu wants a detail row with a non-empty desc,
\* Bilibili a detail row.
has_details(p, item) ==
    IF p = "xiaohongshu" THEN item.details = "full" ELSE item.details # "none"

\* `param or settings.X` of the factories and orchestrator constructors.
OrDefault(param, default) == IF param = 0 THEN default ELSE param

\* max_attempts as the recovery predicate of platform p reads it.
RecoveryMaxAttempts(p) ==
    IF p = "xiaohongshu" THEN HardcodedMaxAttempts ELSE BILIBILI_DETAILS_MAX_RETRY_ATTEMPTS

\* Mutation: only an unfinished Task (pending, in progress) counts as a
\* Task of the item.
needs_recovery_unfinished_only(p, item, taskRows) ==
    IF ~has_details(p, item)
    THEN \/ item.attempts < RecoveryMaxAttempts(p)
         \/ item.last = "old"
    ELSE \A k \in 1..Len(taskRows) : taskRows[k] \notin {"pending", "in_progress"}

\* Mutation: an item that has details is never recovered.
needs_recovery_missing_details_only(p, item, taskRows) ==
    /\ ~has_details(p, item)
    /\ \/ item.attempts < RecoveryMaxAttempts(p)
       \/ item.last = "old"

\* _needs_recovery(db, item); taskRows is the result of the Task query.
needs_recovery(p, item, taskRows) ==
    IF ~has_details(p, item)
    THEN \/ item.attempts < RecoveryMaxAttempts(p)
         \/ item.last = "old"
    ELSE taskRows = <<>>

\* Mutation: the threshold itself already counts as a first sync.
is_first_sync_at_threshold(newly_created, threshold) == Len(newly_created) >= threshold

\* _is_first_sync(persist_result)
is_first_sync(newly_created, threshold) == Len(newly_created) > threshold

\* PersistResult.all_items
all_items(h) == hnew[h] \o hrec[h]

\* Mutation: the number of items the event carried.
total_count_of_event(h) == Len(hitems[h])

\* Mutation: only the recovered items are counted.
total_count_recovered_only(h) == Len(hrec[h])

\* PersistResult.total_count
total_count(h) == Len(hnew[h]) + Len(hrec[h])

\* Mutation: the lookup sees only what the session has loaded before.
Load_session_only(snap, i) == snap[i]

\* get_by_platform_item_id through session snapshot snap: the loaded object
\* if the session has one, else the row as it is in the database now.
Load(snap, i) == IF snap[i].rows > 0 THEN snap[i] ELSE favorite_items[i]

\* The passing of time, seen from a stored timestamp.
AgeDelay(item) == IF item.last = "recent" THEN [item EXCEPT !.last = "due"] ELSE item
AgeDay(item) == IF item.last \in {"recent", "due"} THEN [item EXCEPT !.last = "old"] ELSE item

HasFreeRetry == \E r \in Retries : rstate[r] = "free"
FreeRetry == CHOOSE r \in Retries : rstate[r] = "free"

\* asyncio.create_task(self._schedule_retry(note_id, delay))
ScheduleRetry(i) ==
    /\ HasFreeRetry
    /\ rstate' = [rstate EXCEPT ![FreeRetry] = "sleeping"]
    /\ ritem' = [ritem EXCEPT ![FreeRetry] = i]
    /\ UNCHANGED rsnap

(***************************************************************************)
(* Initial state: an empty database, no handler running.                   *)
(***************************************************************************)
\* slots: the _schedule_retry tasks that can be pending at the same time.
InitSlots(platforms, attemptParams, thresholdParams, slots) ==
    /\ platform \in platforms
    /\ max_attempts \in {OrDefault(m, XIAOHONGSHU_DETAILS_MAX_RETRY_ATTEMPTS) :
                             m \in IF platform = "xiaohongshu" THEN attemptParams ELSE {0}}
    /\ first_sync_threshold_arg \in thresholdParams
    /\ first_sync_threshold = OrDefault(first_sync_threshold_arg, FIRST_SYNC_THRESHOLD)
    /\ favorite_items = [i \in ItemIds |-> NoRow]
    /\ tasks = [i \in ItemIds |-> <<>>]
    /\ hpc = [h \in Handlers |-> "idle"]
    /\ hitems = [h \in Handlers |-> <<>>]
    /\ hidx = [h \in Handlers |-> 1]
    /\ hnew = [h \in Handlers |-> <<>>]
    /\ hrec = [h \in Handlers |-> <<>>]
    /\ hwith = [h \in Handlers |-> <<>>]
    /\ hsnap = [h \in Handlers |-> [i \in ItemIds |-> NoRow]]
    /\ hrun = [h \in Handlers |-> NoRun]
    /\ rstate = [r \in Retries |-> IF r \in slots THEN "free" ELSE "off"]
    /\ ritem = [r \in Retries |-> "A1"]
    /\ rsnap = [r \in Retries |-> NoRow]
    /\ _tasks = [s \in StreamIds |-> NoLoop]
    /\ _remote_task_ids = [s \in StreamIds |-> "none"]
    /\ _running = FALSE
    /\ _on_event = "none"
    /\ lstate = [l \in Loops |-> "unused"]
    /\ lstream = [l \in Loops |-> "none"]
    /\ lcancel = [l \in Loops |-> FALSE]
    /\ remote_tasks = {}
    /\ deletes = {}
    /\ dispatched = <<>>
    /\ semaphore = LlmChatLimit
    /\ runpc = [t \in Runs |-> [at |-> "in_progress", executor |-> "none"]]
    /\ event = NoEvent
    /\ event_data = NoEventData
    /\ ppc = "idle"
    /\ collection_id_of = [id \in BriefIds |-> "none"]
    /\ authors = [u \in UserIds |-> 0]
    /\ ensure = [h \in Handlers |-> [at |-> "idle", todo |-> <<>>]]

\* One deferred retry pending at a time.
InitWith(platforms, attemptParams, thresholdParams) ==
    InitSlots(platforms, attemptParams, thresholdParams, {"r1"})

(***************************************************************************)
(* handle_event: parse, then persist_brief_items                           *)
(***************************************************************************)

\* Positions of a handler that is not running: never started, or returned
\* with nothing to process, at the first-sync guard, or after the last stage,
\* or left by an exception that nothing caught.
Returned == {"idle", "no_items", "first_sync_skip", "done", "raised"}

\* What a returned handler leaves behind: its session and its locals are
\* gone; the model keeps the PersistResult of a run the first-sync guard
\* ended, until the handler is used again.
Return(h, how) ==
    /\ hpc' = [hpc EXCEPT ![h] = how]
    /\ hitems' = [hitems EXCEPT ![h] = <<>>]
    /\ hidx' = [hidx EXCEPT ![h] = 1]
    /\ hnew' = [hnew EXCEPT ![h] = IF how = "first_sync_skip" THEN @ ELSE <<>>]
    /\ hrec' = [hrec EXCEPT ![h] = IF how = "first_sync_skip" THEN @ ELSE <<>>]
    /\ hwith' = [hwith EXCEPT ![h] = <<>>]
    /\ hsnap' = [hsnap EXCEPT ![h] = [i \in ItemIds |-> NoRow]]
    /\ hrun' = [hrun EXCEPT ![h] = NoRun]

\* handle_stream_event opens a session and the orchestrator parses the event;
\* an event without items returns at once.
HandleEvent(h, batch) ==
    /\ hpc[h] \in Returned
    /\ hpc' = [hpc EXCEPT ![h] = "lookup"]
    /\ hitems' = [hitems EXCEPT ![h] = batch]
    /\ hnew' = [hnew EXCEPT ![h] = <<>>]
    /\ hrec' = [hrec EXCEPT ![h] = <<>>]
    /\ UNCHANGED <<cfgVars, parseVars, execVars, streamVars, favorite_items, tasks, hidx, hwith, hsnap, hrun,
                   retryVars>>

\* An event whose item block is not a list.  The Bilibili parser answers
\* with no items and handle_event returns; the Xiaohongshu parser iterates
\* over the block outside its try, the TypeError leaves parse, handle_event
\* and handle_stream_event, none of which has a handler for it.
MalformedEvent(h) ==
    /\ hpc[h] \in Returned
    /\ Return(h, IF platform = "xiaohongshu" THEN "raised" ELSE "idle")
    /\ UNCHANGED <<cfgVars, parseVars, execVars, streamVars, favorite_items, tasks, retryVars>>

\* One turn of the persist loop up to the insert: look the item up; an
\* existing item is classified by the recovery predicate.
PersistLookup(h) ==
    /\ hpc[h] = "lookup"
    /\ hidx[h] <= Len(hitems[h])
    /\ LET i == hitems[h][hidx[h]]
           existing == Load(hsnap[h], i)
       IN  IF existing.rows > 0
           THEN /\ hsnap' = [hsnap EXCEPT ![h][i] = existing]
                /\ hrec' = [hrec EXCEPT ![h] =
                       IF needs_recovery(platform, existing, tasks[i])
                       THEN Append(@, i) ELSE @]
                /\ hidx' = [hidx EXCEPT ![h] = @ + 1]
                /\ UNCHANGED hpc
           ELSE /\ hpc' = [hpc EXCEPT ![h] = "insert"]
                /\ UNCHANGED <<hsnap, hrec, hidx>>
    /\ UNCHANGED <<cfgVars, parseVars, execVars, streamVars, favorite_items, tasks, hitems, hnew, hwith, hrun, retryVars>>

\* Brief item A1 carries an xsec_token, B1 carries none.
xsec_token(i) == i = "A1"

\* The row a persister creates: Xiaohongshu adds a placeholder detail row
\* (empty desc) when the brief item carries an xsec_token.
NewRow(p, token) ==
    [rows |-> 1, attempts |-> 0, last |-> "never",
     details |-> IF p = "xiaohongshu" /\ token THEN "empty" ELSE "none"]

\* INSERT into favorite_items: platform_item_id is unique, a second row
\* with the same external id raises IntegrityError.
\* Mutation: no unique constraint on platform_item_id.
InsertAllowed_no_constraint(i) == TRUE

InsertAllowed(i) == favorite_items[i].rows = 0

\* The insert of the persist loop.  A failed insert is caught by the loop
\* and the item is left out of the result.
PersistInsert(h) ==
    /\ hpc[h] = "insert"
    /\ LET i == hitems[h][hidx[h]]
       IN  IF InsertAllowed(i)
           THEN /\ favorite_items' = [favorite_items EXCEPT ![i] =
                       [NewRow(platform, xsec_token(i)) EXCEPT
                           !.rows = favorite_items[i].rows + 1]]
                /\ hsnap' = [hsnap EXCEPT ![h][i] = NewRow(platform, xsec_token(i))]
                /\ hnew' = [hnew EXCEPT ![h] = Append(@, i)]
           ELSE UNCHANGED <<favorite_items, hsnap, hnew>>
    /\ hidx' = [hidx EXCEPT ![h] = @ + 1]
    /\ hpc' = [hpc EXCEPT ![h] = "lookup"]
    /\ UNCHANGED <<cfgVars, parseVars, execVars, streamVars, tasks, hitems, hrec, hwith, hrun, retryVars>>

\* Mutation: a failure ends the loop over the batch.
PersistInsertFails_aborting_batch(h) ==
    /\ hpc[h] = "insert"
    /\ hidx' = [hidx EXCEPT ![h] = Len(hitems[h]) + 1]
    /\ hpc' = [hpc EXCEPT ![h] = "lookup"]
    /\ UNCHANGED <<cfgVars, parseVars, execVars, streamVars, favorite_items, tasks, hitems, hnew, hrec,
                   hwith, hsnap, hrun, retryVars>>

\* Anything else in the body of the persist loop raises before a row is
\* stored (the foreign key of the collection, the database, the author):
\* the loop logs it and goes on with the next brief item.
PersistInsertFails(h) ==
    /\ hpc[h] = "insert"
    /\ hidx' = [hidx EXCEPT ![h] = @ + 1]
    /\ hpc' = [hpc EXCEPT ![h] = "lookup"]
    /\ UNCHANGED <<cfgVars, parseVars, execVars, streamVars, favorite_items, tasks, hitems, hnew, hrec,
                   hwith, hsnap, hrun, retryVars>>

\* persist_brief_items returns.
PersistReturn(h) ==
    /\ hpc[h] = "lookup"
    /\ hidx[h] > Len(hitems[h])
    /\ hpc' = [hpc EXCEPT ![h] = "first_sync"]
    /\ UNCHANGED <<cfgVars, parseVars, execVars, streamVars, favorite_items, tasks, hitems, hidx, hnew, hrec, hwith,
                   hsnap, hrun, retryVars>>

\* Steps 2b and 3 of handle_event: nothing to process, or first sync
\* detected, ends the run; else details sync starts.
FirstSyncCheck(h) ==
    /\ hpc[h] = "first_sync"
    /\ IF total_count(h) = 0
       THEN Return(h, "no_items")
       ELSE IF is_first_sync(hnew[h], first_sync_threshold)
       THEN Return(h, "first_sync_skip")
       ELSE /\ hpc' = [hpc EXCEPT ![h] = "sync"]
            /\ hidx' = [hidx EXCEPT ![h] = 1]
            /\ UNCHANGED <<hitems, hnew, hrec, hwith, hsnap, hrun>>
    /\ UNCHANGED <<cfgVars, parseVars, execVars, streamVars, favorite_items, tasks, retryVars>>

(***************************************************************************)
(* sync_details                                                            *)
(***************************************************************************)

\* The attempt bookkeeping of sync_xiaohongshu_note_details_single, written
\* from the session's object and committed before the fetch is issued.
Attempted(item) == [item EXCEPT !.attempts = item.attempts + 1, !.last = "recent"]

\* The columns the bookkeeping commit writes to the stored row.
CommitAttempt(i, item) ==
    favorite_items' = [favorite_items EXCEPT
                          ![i].attempts = item.attempts + 1, ![i].last = "recent"]

\* The guard of sync_xiaohongshu_note_details_single: give up at max.
SingleGivesUp(item, max) == item.attempts >= max

\* One turn of DefaultXiaohongshuDetailsSyncer.sync_details up to the
\* external call.
XhsSync(h) ==
    /\ platform = "xiaohongshu"
    /\ hpc[h] = "sync"
    /\ hidx[h] <= Len(all_items(h))
    /\ LET i == all_items(h)[hidx[h]]
           db_item == hsnap[h][i]
       IN  IF has_details(platform, db_item)
           THEN \* already has details
                /\ hwith' = [hwith EXCEPT ![h] = Append(@, i)]
                /\ hidx' = [hidx EXCEPT ![h] = @ + 1]
                /\ UNCHANGED <<hpc, hsnap, hrun, favorite_items, retryVars>>
           ELSE IF db_item.attempts >= max_attempts
           THEN \* exceeded max retry attempts
                /\ hidx' = [hidx EXCEPT ![h] = @ + 1]
                /\ UNCHANGED <<hpc, hwith, hsnap, hrun, favorite_items, retryVars>>
           ELSE IF db_item.last = "recent"
           THEN \* waiting for retry delay: schedule a retry for later
                /\ ScheduleRetry(i)
                /\ hidx' = [hidx EXCEPT ![h] = @ + 1]
                /\ UNCHANGED <<hpc, hwith, hsnap, hrun, favorite_items>>
           ELSE IF SingleGivesUp(db_item, max_attempts)
           THEN \* sync_xiaohongshu_note_details_single returns None
                /\ ScheduleRetry(i)
                /\ hidx' = [hidx EXCEPT ![h] = @ + 1]
                /\ UNCHANGED <<hpc, hwith, hsnap, hrun, favorite_items>>
           ELSE /\ CommitAttempt(i, db_item)
                /\ hsnap' = [hsnap EXCEPT ![h][i] = Attempted(db_item)]
                /\ hrun' = [hrun EXCEPT ![h].fetched = @ \cup {i}]
                /\ hpc' = [hpc EXCEPT ![h] = "fetching"]
                /\ UNCHANGED <<hidx, hwith, retryVars>>
    /\ UNCHANGED <<cfgVars, parseVars, execVars, streamVars, tasks, hitems, hnew, hrec>>

\* get_note_details_from_xiaohongshu returns without usable data (success
\* false, empty data), or it or the update that follows raises: the error
\* is stored and a retry is scheduled.
XhsFetchFails(h) ==
    /\ platform = "xiaohongshu"
    /\ hpc[h] = "fetching"
    /\ ScheduleRetry(all_items(h)[hidx[h]])
    /\ hpc' = [hpc EXCEPT ![h] = "sync"]
    /\ hidx' = [hidx EXCEPT ![h] = @ + 1]
    /\ UNCHANGED <<cfgVars, parseVars, execVars, streamVars, favorite_items, tasks, hitems, hnew, hrec, hwith, hsnap, hrun>>

\* _update_single_*_details inserts a detail row when the session's object
\* has none; the insert fails on the unique note_id / bvid when a row the
\* session has not seen exists.
CanStoreDetails(i, db_item) ==
    db_item.details # "none" \/ favorite_items[i].details = "none"

\* The desc the stored detail row holds after the commit: the flush writes
\* detail_model.desc only when the value set differs from the value the
\* session loaded.
StoredDesc(i, db_item, desc) ==
    IF db_item.details # "none" /\ desc = db_item.details
    THEN favorite_items[i].details
    ELSE desc

\* _update_single_xiaohongshu_note_details: the fetched desc (empty or not)
\* is set on the session's detail row and committed.
StoreDetails(i, db_item, desc) ==
    favorite_items' = [favorite_items EXCEPT ![i].details = StoredDesc(i, db_item, desc)]

\* get_note_details_from_xiaohongshu returns data: details are stored, the
\* object is refreshed, and sync_details keeps the item because its detail
\* row exists.
XhsFetchSucceeds(h, desc) ==
    /\ platform = "xiaohongshu"
    /\ hpc[h] = "fetching"
    /\ LET i == all_items(h)[hidx[h]]
       IN  /\ CanStoreDetails(i, hsnap[h][i])
           /\ StoreDetails(i, hsnap[h][i], desc)
           /\ hsnap' = [hsnap EXCEPT ![h][i] = [favorite_items'[i] EXCEPT !.details = desc]]
           /\ hwith' = [hwith EXCEPT ![h] = Append(@, i)]
    /\ hpc' = [hpc EXCEPT ![h] = "sync"]
    /\ hidx' = [hidx EXCEPT ![h] = @ + 1]
    /\ UNCHANGED <<cfgVars, parseVars, execVars, streamVars, tasks, hitems, hnew, hrec, hrun, retryVars>>

\* BilibiliDetailsSyncer.sync_details: sync_bilibili_videos_details issues a
\* fetch for every item of the list, without attempt bookkeeping.
BiliSync(h) ==
    /\ platform = "bilibili"
    /\ hpc[h] = "sync"
    /\ hidx[h] <= Len(all_items(h))
    /\ hrun' = [hrun EXCEPT ![h].fetched = @ \cup {all_items(h)[hidx[h]]}]
    /\ hpc' = [hpc EXCEPT ![h] = "fetching"]
    /\ UNCHANGED <<cfgVars, parseVars, execVars, streamVars, favorite_items, tasks, hitems, hidx, hnew, hrec, hwith,
                   hsnap, retryVars>>

\* get_video_details_from_bilibili fails or returns nothing: next bvid.
BiliFetchFails(h) ==
    /\ platform = "bilibili"
    /\ hpc[h] = "fetching"
    /\ hpc' = [hpc EXCEPT ![h] = "sync"]
    /\ hidx' = [hidx EXCEPT ![h] = @ + 1]
    /\ UNCHANGED <<cfgVars, parseVars, execVars, streamVars, favorite_items, tasks, hitems, hnew, hrec, hwith, hsnap,
                   hrun, retryVars>>

\* get_video_details_from_bilibili returns data: the detail row is written.
BiliFetchSucceeds(h) ==
    /\ platform = "bilibili"
    /\ hpc[h] = "fetching"
    /\ LET i == all_items(h)[hidx[h]]
       IN  /\ CanStoreDetails(i, hsnap[h][i])
           /\ StoreDetails(i, hsnap[h][i], "full")
           /\ hsnap' = [hsnap EXCEPT ![h][i] = [favorite_items'[i] EXCEPT !.details = "full"]]
    /\ hpc' = [hpc EXCEPT ![h] = "sync"]
    /\ hidx' = [hidx EXCEPT ![h] = @ + 1]
    /\ UNCHANGED <<cfgVars, parseVars, execVars, streamVars, tasks, hitems, hnew, hrec, hwith, hrun, retryVars>>

\* An exception inside sync_bilibili_videos_details ends its loop.
BiliFetchRaises(h) ==
    /\ platform = "bilibili"
    /\ hpc[h] = "fetching"
    /\ hpc' = [hpc EXCEPT ![h] = "sync"]
    /\ hidx' = [hidx EXCEPT ![h] = Len(all_items(h)) + 1]
    /\ UNCHANGED <<cfgVars, parseVars, execVars, streamVars, favorite_items, tasks, hitems, hnew, hrec, hwith, hsnap,
                   hrun, retryVars>>

\* sync_details returns.  Xiaohongshu goes on with items_with_details (and
\* skips task creation when it is empty), Bilibili with all_items.
SyncReturn(h) ==
    /\ hpc[h] = "sync"
    /\ hidx[h] > Len(all_items(h))
    /\ LET next == IF platform = "xiaohongshu" THEN hwith[h] ELSE all_items(h)
       IN  IF platform = "xiaohongshu" /\ next = <<>>
           THEN Return(h, "done")
           ELSE /\ hwith' = [hwith EXCEPT ![h] = next]
                /\ hpc' = [hpc EXCEPT ![h] = "tasks"]
                /\ hidx' = [hidx EXCEPT ![h] = 1]
                /\ UNCHANGED <<hitems, hnew, hrec, hsnap, hrun>>
    /\ UNCHANGED <<cfgVars, parseVars, execVars, streamVars, favorite_items, tasks, retryVars>>

(***************************************************************************)
(* create_analysis_tasks                                                   *)
(***************************************************************************)

\* Mutation: the gate looks for an unfinished Task only.
HasAnyTask_unfinished_only(taskRows) ==
    \E k \in 1..Len(taskRows) : taskRows[k] \in {"pending", "in_progress"}

\* The Task query of the gate: is there any Task row for the item?
HasAnyTask(taskRows) == taskRows # <<>>

\* One turn of create_analysis_tasks up to the insert: re-check details on
\* the session's object, then query for any existing Task.
TaskCheck(h) ==
    /\ hpc[h] = "tasks"
    /\ hidx[h] <= Len(hwith[h])
    /\ LET i == hwith[h][hidx[h]]
       IN  IF ~has_details(platform, hsnap[h][i]) \/ HasAnyTask(tasks[i])
           THEN /\ hidx' = [hidx EXCEPT ![h] = @ + 1]
                /\ UNCHANGED hpc
           ELSE /\ hpc' = [hpc EXCEPT ![h] = "create_task"]
                /\ UNCHANGED hidx
    /\ UNCHANGED <<cfgVars, parseVars, execVars, streamVars, favorite_items, tasks, hitems, hnew, hrec, hwith, hsnap,
                   hrun, retryVars>>

\* workshop_service.start_workshop_task: one PENDING Task row is inserted
\* and run_workshop_task is started for it.
TaskInsert(h) ==
    /\ hpc[h] = "create_task"
    /\ LET i == hwith[h][hidx[h]]
       IN  /\ Len(tasks[i]) < MaxTasks
           /\ tasks' = [tasks EXCEPT ![i] = Append(@, "pending")]
           /\ hrun' = [hrun EXCEPT ![h].created = @ \cup {i}]
    /\ hpc' = [hpc EXCEPT ![h] = "tasks"]
    /\ hidx' = [hidx EXCEPT ![h] = @ + 1]
    /\ UNCHANGED <<cfgVars, parseVars, execVars, streamVars, favorite_items, hitems, hnew, hrec, hwith, hsnap, retryVars>>

\* Workshop resolution or the insert raises: logged, next item.
TaskInsertFails(h) ==
    /\ hpc[h] = "create_task"
    /\ hpc' = [hpc EXCEPT ![h] = "tasks"]
    /\ hidx' = [hidx EXCEPT ![h] = @ + 1]
    /\ UNCHANGED <<cfgVars, parseVars, execVars, streamVars, favorite_items, tasks, hitems, hnew, hrec, hwith, hsnap,
                   hrun, retryVars>>

\* create_analysis_tasks returns and with it handle_event.
TasksReturn(h) ==
    /\ hpc[h] = "tasks"
    /\ hidx[h] > Len(hwith[h])
    /\ Return(h, "done")
    /\ UNCHANGED <<cfgVars, parseVars, execVars, streamVars, favorite_items, tasks, retryVars>>

\* run_workshop_task (downstream): PENDING -> IN_PROGRESS -> SUCCESS | FAILURE.
RunTask(i, k) ==
    /\ k \in 1..Len(tasks[i])
    /\ \/ /\ tasks[i][k] = "pending"
          /\ tasks' = [tasks EXCEPT ![i][k] = "in_progress"]
       \/ /\ tasks[i][k] = "in_progress"
          /\ \E s \in {"success", "failure"} : tasks' = [tasks EXCEPT ![i][k] = s]
    /\ UNCHANGED <<cfgVars, parseVars, execVars, streamVars, favorite_items, handlerVars, retryVars>>

(***************************************************************************)
(* _schedule_retry                                                         *)
(***************************************************************************)

\* asyncio.sleep is over: the retry opens a session and reads the item.
RetryWake(r) ==
    /\ rstate[r] = "due"
    /\ IF favorite_items[ritem[r]].rows = 0
       THEN /\ rstate' = [rstate EXCEPT ![r] = "free"]
            /\ UNCHANGED rsnap
       ELSE /\ rstate' = [rstate EXCEPT ![r] = "loaded"]
            /\ rsnap' = [rsnap EXCEPT ![r] = favorite_items[ritem[r]]]
    /\ UNCHANGED <<cfgVars, parseVars, execVars, streamVars, favorite_items, tasks, handlerVars, ritem>>

\* sync_xiaohongshu_note_details_single inside the retry, up to the
\* external call.
RetryAttempt(r) ==
    /\ rstate[r] = "loaded"
    /\ IF SingleGivesUp(rsnap[r], max_attempts)
       THEN /\ rstate' = [rstate EXCEPT ![r] = "free"]
            /\ rsnap' = [rsnap EXCEPT ![r] = NoRow]
            /\ UNCHANGED favorite_items
       ELSE /\ CommitAttempt(ritem[r], rsnap[r])
            /\ rstate' = [rstate EXCEPT ![r] = "fetching"]
            /\ rsnap' = [rsnap EXCEPT ![r] = Attempted(@)]
    /\ UNCHANGED <<cfgVars, parseVars, execVars, streamVars, tasks, handlerVars, ritem>>

\* The retry's fetch fails: the error is stored; nothing else follows.
RetryFetchFails(r) ==
    /\ rstate[r] = "fetching"
    /\ rstate' = [rstate EXCEPT ![r] = "free"]
    /\ rsnap' = [rsnap EXCEPT ![r] = NoRow]
    /\ UNCHANGED <<cfgVars, parseVars, execVars, streamVars, favorite_items, tasks, handlerVars, ritem>>

\* The retry's fetch returns data: details are stored; nothing else follows.
RetryFetchSucceeds(r, desc) ==
    /\ rstate[r] = "fetching"
    /\ CanStoreDetails(ritem[r], rsnap[r])
    /\ StoreDetails(ritem[r], rsnap[r], desc)
    /\ rstate' = [rstate EXCEPT ![r] = "free"]
    /\ rsnap' = [rsnap EXCEPT ![r] = NoRow]
    /\ UNCHANGED <<cfgVars, parseVars, execVars, streamVars, tasks, handlerVars, ritem>>

(***************************************************************************)
(* Time                                                                    *)
(***************************************************************************)

\* retry_delay passes: recent attempts are no longer recent, sleeping
\* retries wake up.
TickDelay ==
    /\ favorite_items' = [i \in ItemIds |-> AgeDelay(favorite_items[i])]
    /\ hsnap' = [h \in Handlers |-> [i \in ItemIds |-> AgeDelay(hsnap[h][i])]]
    /\ rsnap' = [r \in Retries |-> AgeDelay(rsnap[r])]
    /\ rstate' = [r \in Retries |-> IF rstate[r] = "sleeping" THEN "due" ELSE rstate[r]]
    /\ UNCHANGED <<cfgVars, parseVars, execVars, streamVars, tasks, hpc, hitems, hidx, hnew, hrec, hwith, hrun, ritem>>

\* More than 24 hours pass.
TickDay ==
    /\ favorite_items' = [i \in ItemIds |-> AgeDay(favorite_items[i])]
    /\ hsnap' = [h \in Handlers |-> [i \in ItemIds |-> AgeDay(hsnap[h][i])]]
    /\ rsnap' = [r \in Retries |-> AgeDay(rsnap[r])]
    /\ rstate' = [r \in Retries |-> IF rstate[r] = "sleeping" THEN "due" ELSE rstate[r]]
    /\ UNCHANGED <<cfgVars, parseVars, execVars, streamVars, tasks, hpc, hitems, hidx, hnew, hrec, hwith, hrun, ritem>>

DetailOutcomes == {"empty", "full"}

\* The steps of the pipeline with the handlers of H running events that
\* carry the batches of B.
Pipeline(H, B) ==
    \/ \E h \in H, batch \in B : HandleEvent(h, batch)
    \/ \E h \in H : MalformedEvent(h)
    \/ \E h \in H : PersistLookup(h)
    \/ \E h \in H : PersistInsert(h)
    \/ \E h \in H : PersistReturn(h)
    \/ \E h \in H : FirstSyncCheck(h)
    \/ \E h \in H : XhsSync(h)
    \/ \E h \in H : XhsFetchFails(h)
    \/ \E h \in H, desc \in DetailOutcomes : XhsFetchSucceeds(h, desc)
    \/ \E h \in H : BiliSync(h)
    \/ \E h \in H : BiliFetchFails(h)
    \/ \E h \in H : BiliFetchSucceeds(h)
    \/ \E h \in H : BiliFetchRaises(h)
    \/ \E h \in H : SyncReturn(h)
    \/ \E h \in H : TaskCheck(h)
    \/ \E h \in H : TaskInsert(h)
    \/ \E h \in H : TaskInsertFails(h)
    \/ \E h \in H : TasksReturn(h)
    \/ \E r \in Retries : RetryWake(r)
    \/ \E r \in Retries : RetryAttempt(r)
    \/ \E r \in Retries : RetryFetchFails(r)
    \/ \E r \in Retries, desc \in DetailOutcomes : RetryFetchSucceeds(r, desc)
    \/ TickDelay

\* Events that carry item A1 only, once or repeated.
BatchesOfA1 == SeqsUpTo({"A1"}, MaxBatch) \ {<<>>}

\* One handler at a time on events that carry item A1, with the deferred
\* retries, the downstream task runs and the passing of time, under the
\* default and under a lowered max_attempts.
Init == InitWith(Platforms, MaxAttemptsParams, {0})

Next ==
    \/ Pipeline({"h1"}, BatchesOfA1)
    \/ \E i \in ItemIds, k \in 1..MaxTasks : RunTask(i, k)
    \/ TickDay

Spec == Init /\ [][Next]_vars

\* One handler at a time on events over both items, under a first-sync
\* threshold that these batches can exceed.
InitBatch == InitWith(Platforms, {2}, {1})

NextBatch == Pipeline({"h1"}, Batches)

SpecBatch == InitBatch /\ [][NextBatch]_vars

\* Two handlers running concurrently on events that carry item A1.
InitRace == InitWith(Platforms, {2}, {0})

NextRace == Pipeline(Handlers, {<<"A1">>})

SpecRace == InitRace /\ [][NextRace]_vars

\* Xiaohongshu events that carry note A1 with two deferred retries that can
\* be pending at once; every fetch a handler issues fails, so that details
\* come from the deferred retries only.
InitRetry == InitSlots({"xiaohongshu"}, {0}, {0}, Retries)

NextRetry ==
    \/ HandleEvent("h1", <<"A1">>)
    \/ PersistLookup("h1")
    \/ PersistInsert("h1")
    \/ PersistReturn("h1")
    \/ FirstSyncCheck("h1")
    \/ XhsSync("h1")
    \/ XhsFetchFails("h1")
    \/ SyncReturn("h1")
    \/ TaskCheck("h1")
    \/ TaskInsert("h1")
    \/ TasksReturn("h1")
    \/ \E r \in Retries : RetryWake(r)
    \/ \E r \in Retries : RetryAttempt(r)
    \/ \E r \in Retries : RetryFetchFails(r)
    \/ \E r \in Retries, desc \in DetailOutcomes : RetryFetchSucceeds(r, desc)
    \/ TickDelay

SpecRetry == InitRetry /\ [][NextRetry]_vars

(***************************************************************************)
(* StreamManager (services/stream_manager.py)                              *)
(*                                                                         *)
(* start_stream, stop_stream, stop and register_event_handler are plain    *)
(* functions or run without suspension where they touch the dictionaries:  *)
(* each is one step.  A _run_stream_task task is in one of                 *)
(*   "unused"   - not created yet                                          *)
(*   "created"  - asyncio.create_task was called, the coroutine has not    *)
(*                started                                                   *)
(*   "opening"  - inside run_plugin_stream, before the remote service has  *)
(*                started the plugin task                                  *)
(*   "started"  - the remote plugin task exists, the response to the       *)
(*                request that started it has not been read                *)
(*   "reading"  - in the while loop, awaiting stream.next                  *)
(*   "finished" - the task is over                                         *)
(* A read timeout inside the loop changes nothing and is a stuttering step.*)
(***************************************************************************)

\* The id the remote service gives the plugin task of loop l.
RemoteTaskId(l) == ToString(l)

InsideTry == {"opening", "started", "reading"}

UnusedLoops == {l \in Loops : lstate[l] = "unused"}

\* task.cancel(): a request that the task receives when it runs next;
\* cancelling a finished task does nothing.
Cancel(cancelled) ==
    lcancel' = [l \in Loops |-> lcancel[l] \/ (l \in cancelled /\ lstate[l] # "finished")]

\* StreamManager.start
ManagerStart ==
    /\ ~_running
    /\ _running' = TRUE
    /\ UNCHANGED <<pipelineVars, _tasks, _remote_task_ids, _on_event, lstate, lstream,
                   lcancel, remote_tasks, deletes, dispatched>>

\* StreamManager.stop
ManagerStop ==
    /\ Cancel({_tasks[s] : s \in StreamIds})
    /\ _tasks' = [s \in StreamIds |-> NoLoop]
    /\ _running' = FALSE
    /\ UNCHANGED <<pipelineVars, _remote_task_ids, _on_event, lstate, lstream,
                   remote_tasks, deletes, dispatched>>

\* StreamManager.register_event_handler
RegisterEventHandler(handler) ==
    /\ _on_event' = handler
    /\ UNCHANGED <<pipelineVars, _tasks, _remote_task_ids, _running, lstate, lstream,
                   lcancel, remote_tasks, deletes, dispatched>>

\* StreamManager.start_stream
StartStream(stream_id) ==
    /\ UnusedLoops # {}
    /\ IF _tasks[stream_id] # NoLoop
       THEN UNCHANGED <<_tasks, lstate, lstream>>
       ELSE LET task == CHOOSE l \in UnusedLoops : \A m \in UnusedLoops : l <= m
            IN  /\ lstate' = [lstate EXCEPT ![task] = "created"]
                /\ lstream' = [lstream EXCEPT ![task] = stream_id]
                /\ _tasks' = [_tasks EXCEPT ![stream_id] = task]
    /\ UNCHANGED <<pipelineVars, _remote_task_ids, _running, _on_event, lcancel,
                   remote_tasks, deletes, dispatched>>

\* A stop that also drops the events handed to handler tasks.
StopStream_dropping_dispatched(stream_id) ==
    LET task == _tasks[stream_id]
        remote_id == IF _remote_task_ids[stream_id] # "none"
                     THEN _remote_task_ids[stream_id] ELSE stream_id
    IN  /\ IF task # NoLoop
           THEN /\ _tasks' = [_tasks EXCEPT ![stream_id] = NoLoop]
                /\ Cancel({task})
                /\ _remote_task_ids' = [_remote_task_ids EXCEPT ![stream_id] = "none"]
                /\ deletes' = deletes \cup {remote_id}
                /\ dispatched' = <<>>
           ELSE UNCHANGED <<_tasks, lcancel, _remote_task_ids, deletes, dispatched>>
        /\ UNCHANGED <<pipelineVars, _running, _on_event, lstate, lstream, remote_tasks>>

\* StreamManager.stop_stream
StopStream(stream_id) ==
    LET task == _tasks[stream_id]
        remote_id == IF _remote_task_ids[stream_id] # "none"
                     THEN _remote_task_ids[stream_id] ELSE stream_id
    IN  /\ IF task # NoLoop
           THEN /\ _tasks' = [_tasks EXCEPT ![stream_id] = NoLoop]
                /\ Cancel({task})
                /\ _remote_task_ids' = [_remote_task_ids EXCEPT ![stream_id] = "none"]
                /\ deletes' = deletes \cup {remote_id}
           ELSE UNCHANGED <<_tasks, lcancel, _remote_task_ids, deletes>>
        /\ UNCHANGED <<pipelineVars, _running, _on_event, lstate, lstream, remote_tasks,
                       dispatched>>

\* The finally clause of _run_stream_task.
LoopFinally(l) ==
    /\ lstate' = [lstate EXCEPT ![l] = "finished"]
    /\ lcancel' = [lcancel EXCEPT ![l] = FALSE]
    /\ _tasks' = [_tasks EXCEPT ![lstream[l]] = NoLoop]

\* _run_stream_task starts running: it enters run_plugin_stream, which
\* raises at once when the client is not started.
LoopBegin(l) ==
    /\ lstate[l] = "created"
    /\ ~lcancel[l]
    /\ IF _running
       THEN /\ lstate' = [lstate EXCEPT ![l] = "opening"]
            /\ UNCHANGED <<_tasks, lcancel>>
       ELSE LoopFinally(l)
    /\ UNCHANGED <<pipelineVars, _remote_task_ids, _running, _on_event, lstream,
                   remote_tasks, deletes, dispatched>>

\* The remote service starts the plugin task run_plugin_stream asked for.
RemoteTaskStarted(l) ==
    /\ lstate[l] = "opening"
    /\ lstate' = [lstate EXCEPT ![l] = "started"]
    /\ remote_tasks' = remote_tasks \cup {RemoteTaskId(l)}
    /\ UNCHANGED <<pipelineVars, _tasks, _remote_task_ids, _running, _on_event, lstream,
                   lcancel, deletes, dispatched>>

\* run_plugin_stream yields the stream; the loop records the remote task
\* id when the response carried one.
LoopOpened(l, provided) ==
    /\ lstate[l] = "started"
    /\ ~lcancel[l]
    /\ lstate' = [lstate EXCEPT ![l] = "reading"]
    /\ _remote_task_ids' = IF provided
                           THEN [_remote_task_ids EXCEPT ![lstream[l]] = RemoteTaskId(l)]
                           ELSE _remote_task_ids
    /\ UNCHANGED <<pipelineVars, _tasks, _running, _on_event, lstream, lcancel,
                   remote_tasks, deletes, dispatched>>

\* The params mapping the callers of start_stream pass for a stream: it
\* names the collection the stream id is built from.
StreamParams(stream_id) == <<"params", stream_id>>

\* Mutation: the event goes on as the plugin sent it.
TaggedEvent_as_received(l) == [params |-> <<>>, stream_id |-> "none"]

\* The event after event["params"] = params; event["stream_id"] = stream_id.
TaggedEvent(l) == [params |-> StreamParams(lstream[l]), stream_id |-> lstream[l]]

\* stream.next returns an event: it is tagged and handed to a detached
\* task of the registered handler.
LoopEvent(l) ==
    /\ lstate[l] = "reading"
    /\ ~lcancel[l]
    /\ Len(dispatched) < MaxEvents
    /\ dispatched' = IF _on_event # "none"
                     THEN Append(dispatched, [handler |-> _on_event, event |-> TaggedEvent(l)])
                     ELSE dispatched
    /\ UNCHANGED <<pipelineVars, _tasks, _remote_task_ids, _running, _on_event, lstate,
                   lstream, lcancel, remote_tasks, deletes>>

\* Mutation: a read timeout ends the loop like any other exception.
LoopReadTimeout_ends_loop(l) ==
    /\ lstate[l] = "reading"
    /\ ~lcancel[l]
    /\ LoopFinally(l)
    /\ UNCHANGED <<pipelineVars, _remote_task_ids, _running, _on_event, lstream,
                   remote_tasks, deletes, dispatched>>

\* stream.next raises TimeoutError after 60 s without an event; the inner
\* handler continues the loop, which calls stream.next again.  Nothing is
\* awaited in between.
LoopReadTimeout(l) ==
    /\ lstate[l] = "reading"
    /\ ~lcancel[l]
    /\ UNCHANGED vars

\* Any exception other than a read timeout ends the loop.
LoopCrash(l) ==
    /\ lstate[l] \in InsideTry
    /\ ~lcancel[l]
    /\ LoopFinally(l)
    /\ UNCHANGED <<pipelineVars, _remote_task_ids, _running, _on_event, lstream,
                   remote_tasks, deletes, dispatched>>

\* The cancellation reaches the task.  A task that has started receives
\* CancelledError inside the try block; a task that never started ends
\* without running any of the coroutine.
LoopCancelled(l) ==
    /\ lcancel[l]
    /\ IF lstate[l] \in InsideTry
       THEN LoopFinally(l)
       ELSE /\ lstate[l] = "created"
            /\ lstate' = [lstate EXCEPT ![l] = "finished"]
            /\ lcancel' = [lcancel EXCEPT ![l] = FALSE]
            /\ UNCHANGED _tasks
    /\ UNCHANGED <<pipelineVars, _remote_task_ids, _running, _on_event, lstream,
                   remote_tasks, deletes, dispatched>>

\* The steps of the stream manager with its polling loops, its callers
\* starting and stopping the streams of S.
StreamManager(S) ==
    \/ ManagerStart
    \/ ManagerStop
    \/ \E handler \in EventHandlers : RegisterEventHandler(handler)
    \/ \E stream_id \in S : StartStream(stream_id)
    \/ \E stream_id \in S : StopStream(stream_id)
    \/ \E l \in Loops : LoopBegin(l)
    \/ \E l \in Loops : RemoteTaskStarted(l)
    \/ \E l \in Loops, provided \in BOOLEAN : LoopOpened(l, provided)
    \/ \E l \in Loops : LoopEvent(l)
    \/ \E l \in Loops : LoopReadTimeout(l)
    \/ \E l \in Loops : LoopCrash(l)
    \/ \E l \in Loops : LoopCancelled(l)

\* The stream manager with callers that start and stop stream s1.
InitSM == InitWith({"xiaohongshu"}, {0}, {0})

NextSM == StreamManager({"s1"})

SpecSM == InitSM /\ [][NextSM]_vars

\* startup_event of the application: the stream manager is started and the
\* handler defined inside startup_event is registered with it.  Nothing
\* else in the application registers a handler.
StartupEvent ==
    /\ ~_running
    /\ _on_event = "none"
    /\ _running' = TRUE
    /\ _on_event' = "_handle_stream_event"
    /\ UNCHANGED <<pipelineVars, _tasks, _remote_task_ids, lstate, lstream, lcancel,
                   remote_tasks, deletes, dispatched>>

\* Whether a handler passes the event on to a platform orchestrator:
\* listener_service.handle_stream_event does; the handler of startup_event
\* looks for a "favorite_added" event and starts a workshop task itself.
CallsOrchestrator(handler) == handler = "handle_stream_event"

\* The running application: startup, then the stream manager driven by the
\* listener service and the streams endpoints for stream s1.
InitApp == InitWith({"xiaohongshu"}, {0}, {0})

\* start_stream as the application calls it: requests are served, and the
\* listener service runs, once startup_event has returned.
AppStartStream(stream_id) ==
    /\ _on_event # "none"
    /\ StartStream(stream_id)

NextApp ==
    \/ StartupEvent
    \/ ManagerStop
    \/ AppStartStream("s1")
    \/ StopStream("s1")
    \/ \E l \in Loops : LoopBegin(l)
    \/ \E l \in Loops : RemoteTaskStarted(l)
    \/ \E l \in Loops, provided \in BOOLEAN : LoopOpened(l, provided)
    \/ \E l \in Loops : LoopEvent(l)
    \/ \E l \in Loops : LoopReadTimeout(l)
    \/ \E l \in Loops : LoopCrash(l)
    \/ \E l \in Loops : LoopCancelled(l)

SpecApp == InitApp /\ [][NextApp]_vars

\* The detached task of a dispatched event starts running: the handler
\* routes the event to the orchestrator, whose run then goes on by itself.
RunDispatched(h, batch) ==
    /\ hpc[h] = "idle"
    /\ \E n \in 1..Len(dispatched) : CallsOrchestrator(dispatched[n].handler)
    /\ HandleEvent(h, batch)

\* A subscription for stream s1 with listener_service.handle_stream_event
\* registered: the event it delivers carries the new note A1, the detail
\* fetch of the run fails and leaves a deferred retry behind, and the
\* subscription is stopped at any moment.
InitStop == InitWith({"xiaohongshu"}, {2}, {0})

NextStop ==
    \/ ManagerStart
    \/ RegisterEventHandler("handle_stream_event")
    \/ StartStream("s1")
    \/ StopStream("s1")
    \/ \E l \in Loops : LoopBegin(l)
    \/ \E l \in Loops : RemoteTaskStarted(l)
    \/ \E l \in Loops, provided \in BOOLEAN : LoopOpened(l, provided)
    \/ \E l \in Loops : LoopEvent(l)
    \/ \E l \in Loops : LoopCancelled(l)
    \/ RunDispatched("h1", <<"A1">>)
    \/ PersistLookup("h1")
    \/ PersistInsert("h1")
    \/ PersistReturn("h1")
    \/ FirstSyncCheck("h1")
    \/ XhsSync("h1")
    \/ XhsFetchFails("h1")
    \/ SyncReturn("h1")
    \/ \E r \in Retries : RetryWake(r)
    \/ \E r \in Retries : RetryAttempt(r)
    \/ \E r \in Retries : RetryFetchFails(r)
    \/ \E r \in Retries, desc \in DetailOutcomes : RetryFetchSucceeds(r, desc)
    \/ TickDelay

SpecStop == InitStop /\ [][NextStop]_vars

\* One handler on events that carry the two new items A1 and B1, where
\* storing an item and creating its Task can fail for any reason.
InitPersist == InitWith(Platforms, {2}, {0})

NextPersist ==
    \/ Pipeline({"h1"}, {<<"A1", "B1">>})
    \/ PersistInsertFails("h1")

SpecPersist == InitPersist /\ [][NextPersist]_vars

(***************************************************************************)
(* The executor registry and its concurrency control                       *)
(***************************************************************************)

\* ExecutorRegistry.get: the wrapped executor of the type, the llm_chat one
\* for a type that is not registered.
RegistryGet(executor_type) ==
    IF executor_type = "llm_chat" THEN executor_type ELSE "llm_chat"

\* run_workshop_task has set the Task IN_PROGRESS; it takes the executor of
\* the workshop's type from the registry and calls it: the wrapper reaches
\* `async with semaphore`.
ExecutorCalled(t, executor_type) ==
    /\ runpc[t].at = "in_progress"
    /\ runpc' = [runpc EXCEPT ![t] = [at |-> "acquiring", executor |-> RegistryGet(executor_type)]]
    /\ UNCHANGED <<cfgVars, parseVars, streamVars, favorite_items, tasks, handlerVars, retryVars,
                   semaphore>>

\* Semaphore.acquire of the wrapper: takes a permit when one is free.
Acquire(t) ==
    /\ runpc[t] = [at |-> "acquiring", executor |-> "llm_chat"]
    /\ semaphore > 0
    /\ semaphore' = semaphore - 1
    /\ runpc' = [runpc EXCEPT ![t].at = "executing"]
    /\ UNCHANGED <<cfgVars, parseVars, streamVars, favorite_items, tasks, handlerVars, retryVars>>

\* Mutation: a raising executor leaves the wrapper without a release.
ExecutorRaises_keeps_permit(t) ==
    /\ runpc[t] = [at |-> "executing", executor |-> "llm_chat"]
    /\ runpc' = [runpc EXCEPT ![t].at = "failure"]
    /\ UNCHANGED <<cfgVars, parseVars, streamVars, favorite_items, tasks, handlerVars, retryVars,
                   semaphore>>

\* executor_func returns: `async with` releases the permit, the run saves
\* the result and sets the Task SUCCESS.
ExecutorReturns(t) ==
    /\ runpc[t] = [at |-> "executing", executor |-> "llm_chat"]
    /\ semaphore' = semaphore + 1
    /\ runpc' = [runpc EXCEPT ![t].at = "success"]
    /\ UNCHANGED <<cfgVars, parseVars, streamVars, favorite_items, tasks, handlerVars, retryVars>>

\* executor_func raises: `async with` releases the permit, the run sets the
\* Task FAILURE.
ExecutorRaises(t) ==
    /\ runpc[t] = [at |-> "executing", executor |-> "llm_chat"]
    /\ semaphore' = semaphore + 1
    /\ runpc' = [runpc EXCEPT ![t].at = "failure"]
    /\ UNCHANGED <<cfgVars, parseVars, streamVars, favorite_items, tasks, handlerVars, retryVars>>

\* Concurrent run_workshop_task calls on workshops of either executor type.
InitExec == InitWith({"xiaohongshu"}, {0}, {0})

NextExec ==
    \/ \E t \in Runs, executor_type \in ExecutorTypes : ExecutorCalled(t, executor_type)
    \/ \E t \in Runs : Acquire(t)
    \/ \E t \in Runs : ExecutorReturns(t)
    \/ \E t \in Runs : ExecutorRaises(t)

SpecExec == InitExec /\ [][NextExec]_vars

(***************************************************************************)
(* The event parsers, and the collection id the persisters store           *)
(***************************************************************************)

\* Mutation: the success flag of the result is not looked at.
ResultUsable_ignoring_success(e) ==
    e.shape \notin {"no_payload", "payload_not_map", "no_result", "result_not_map"}

\* Both parsers: payload and result are maps and result["success"] is true.
ResultUsable(e) ==
    /\ e.shape \notin {"no_payload", "payload_not_map", "no_result", "result_not_map"}
    /\ e.success

\* Mutation: the full list is used whenever it is not empty.
PreferAdded_full_list_first(e) == IF e.data # <<>> THEN e.data ELSE e.added.data

\* Both parsers: the added items when there are any, else all items.
PreferAdded(e) ==
    IF e.added.present /\ e.added.data # <<>> THEN e.added.data ELSE e.data

\* BilibiliEventParser._extract_items
_extract_items(e) ==
    IF ~ResultUsable(e) \/ e.shape \in {"no_data", "data_not_map", "items_not_list"}
    THEN <<>>
    ELSE PreferAdded(e)

NoBrief == [bvid |-> "", collection_id |-> ""]

\* VideoItemBrief.from_dict: None without a bvid; the item's own
\* collection_id if it has one, else the fallback from the event params.
from_dict(data, fallback_collection_id) ==
    IF data.id = ""
    THEN NoBrief
    ELSE [bvid |-> data.id,
          collection_id |-> IF data.collection_id # "" THEN data.collection_id
                            ELSE fallback_collection_id]

\* BilibiliEventParser._parse_items
_parse_items(items, fallback_collection_id) ==
    LET valid == SelectSeq(items, LAMBDA d : from_dict(d, fallback_collection_id) # NoBrief)
    IN  [n \in 1..Len(valid) |-> from_dict(valid[n], fallback_collection_id)]

\* BilibiliEventParser.parse
BilibiliParse(e) ==
    [items |-> _parse_items(_extract_items(e), e.collection_id), raised |-> FALSE]

\* DefaultXiaohongshuEventParser.parse up to its loop: the list it is going
\* to iterate over.
raw_items(e) ==
    IF e.shape \in {"no_data", "data_not_map", "items_not_list"} THEN <<>> ELSE PreferAdded(e)

\* The note the loop of DefaultXiaohongshuEventParser.parse builds from a
\* raw dict: note_id is str(raw.get("id") or raw.get("note_id")).
NoteBrief(raw) == [note_id |-> IF raw.id = "" THEN "None" ELSE raw.id]

\* DefaultXiaohongshuEventParser.parse.  An item block that is a number
\* makes the for statement raise.
XiaohongshuParse(e) ==
    IF ~ResultUsable(e)
    THEN [items |-> <<>>, collection_id |-> e.collection_id, raised |-> FALSE]
    ELSE IF e.shape = "items_not_list"
    THEN [items |-> <<>>, collection_id |-> e.collection_id, raised |-> TRUE]
    ELSE [items |-> [n \in 1..Len(raw_items(e)) |-> NoteBrief(raw_items(e)[n])],
          collection_id |-> e.collection_id, raised |-> FALSE]

Parse(p, e) == IF p = "xiaohongshu" THEN XiaohongshuParse(e) ELSE BilibiliParse(e)

\* The external id of a brief item.
BriefId(p, brief) == IF p = "xiaohongshu" THEN brief.note_id ELSE brief.bvid

\* The collection id the persister of platform p puts on the row it creates
\* for a brief item: Xiaohongshu passes the one of the event data, Bilibili
\* the one of the item.
CreatedCollectionId(p, data, brief) ==
    IF p = "xiaohongshu" THEN data.collection_id ELSE brief.collection_id

\* handle_event is called with an event and parses it.
ReceiveEvent(e) ==
    /\ ppc = "idle"
    /\ event' = e
    /\ event_data' = Parse(platform, e)
    /\ ppc' = IF Parse(platform, e).raised THEN "raised"
              ELSE IF Parse(platform, e).items = <<>> THEN "no_items"
              ELSE "parsed"
    /\ UNCHANGED <<cfgVars, execVars, streamVars, authorVars, favorite_items, tasks, handlerVars,
                   retryVars, collection_id_of>>

\* persist_brief_items on the parsed items: each item that has no row yet
\* gets one, in the order of the list.
PersistParsed ==
    /\ ppc = "parsed"
    /\ collection_id_of' =
          [id \in BriefIds |->
              IF collection_id_of[id] # "none" THEN collection_id_of[id]
              ELSE LET at == {n \in 1..Len(event_data.items) :
                                 BriefId(platform, event_data.items[n]) = id}
                   IN  IF at = {} THEN "none"
                       ELSE CreatedCollectionId(platform, event_data,
                               event_data.items[CHOOSE n \in at : \A m \in at : n <= m])]
    /\ ppc' = "persisted"
    /\ UNCHANGED <<cfgVars, execVars, streamVars, authorVars, favorite_items, tasks, handlerVars,
                   retryVars, event, event_data>>

\* One event of any shape, parsed and persisted on either platform.
InitParse == InitWith(Platforms, {0}, {0})

NextParse ==
    \/ \E e \in Events : ReceiveEvent(e)
    \/ PersistParsed

SpecParse == InitParse /\ [][NextParse]_vars

(***************************************************************************)
(* persist_brief_items: the author of a new item                           *)
(***************************************************************************)

\* What is left of handler h's batch after the item it is working on.
NextItem(h) ==
    [at |-> IF Tail(ensure[h].todo) = <<>> THEN "idle" ELSE "lookup",
     todo |-> Tail(ensure[h].todo)]

\* persist_brief_items is called with brief items that are not stored yet;
\* creators are the user ids of their creators, in the order of the batch.
PersistNewItems(h, creators) ==
    /\ ensure[h].at = "idle"
    /\ ensure' = [ensure EXCEPT ![h] = [at |-> "lookup", todo |-> creators]]
    /\ UNCHANGED <<cfgVars, execVars, streamVars, favorite_items, tasks, handlerVars, retryVars,
                   event, event_data, ppc, collection_id_of, authors>>

\* crud.author.get_by_platform_id returns: an author found is used for the
\* item, else the handler goes on to create one.
AuthorLookup(h) ==
    /\ ensure[h].at = "lookup"
    /\ ensure' = [ensure EXCEPT ![h] =
                     IF authors[Head(ensure[h].todo)] > 0
                     THEN NextItem(h)
                     ELSE [@ EXCEPT !.at = "create"]]
    /\ UNCHANGED <<cfgVars, execVars, streamVars, favorite_items, tasks, handlerVars, retryVars,
                   event, event_data, ppc, collection_id_of, authors>>

\* crud.author.create: the table has no unique constraint on (platform,
\* platform_user_id), the insert always goes through.
AuthorCreate(h) ==
    /\ ensure[h].at = "create"
    /\ authors' = [authors EXCEPT ![Head(ensure[h].todo)] = @ + 1]
    /\ ensure' = [ensure EXCEPT ![h] = NextItem(h)]
    /\ UNCHANGED <<cfgVars, execVars, streamVars, favorite_items, tasks, handlerVars, retryVars,
                   event, event_data, ppc, collection_id_of>>

\* Concurrent handlers persisting new items of creators u1 and u2.
InitAuthor == InitWith(Platforms, {0}, {0})

NextAuthor ==
    \/ \E h \in Handlers, creators \in SeqsUpTo(UserIds, MaxBatch) \ {<<>>} :
          PersistNewItems(h, creators)
    \/ \E h \in Handlers : AuthorLookup(h)
    \/ \E h \in Handlers : AuthorCreate(h)

SpecAuthor == InitAuthor /\ [][NextAuthor]_vars

(***************************************************************************)
(* Properties                                                              *)
(***************************************************************************)

\* Handler h is in the persist loop and about to look up an item.
AtLookup(h) == hpc[h] = "lookup" /\ hidx[h] <= Len(hitems[h])

\* The item handler h is working on in the persist loop.
PersistItem(h) == hitems[h][hidx[h]]

\* Handler h takes a step.
Steps(h) == hpc'[h] # hpc[h] \/ hidx'[h] # hidx[h]

\* Handler h takes the lookup step and finds the item stored.
LooksUpStored(h) ==
    /\ AtLookup(h)
    /\ hidx'[h] = hidx[h] + 1
    /\ Load(hsnap[h], PersistItem(h)).rows > 0

\* A detail fetch for item i is issued in this step.
FetchIssued(i) ==
    \/ \E h \in Handlers :
          /\ hpc[h] = "sync" /\ hpc'[h] = "fetching"
          /\ all_items(h)[hidx[h]] = i
    \/ \E r \in Retries :
          /\ rstate[r] = "loaded" /\ rstate'[r] = "fetching"
          /\ ritem[r] = i

\* C1: across any number of pipeline runs, concurrent ones included, at
\* most one Task row is created per Content Item.
C1_AtMostOneTask == \A i \in ItemIds : Len(tasks[i]) <= 1

\* C2: when persist meets a stored item that has details and at least one
\* Task of any status, the recovery predicate is false: the item enters
\* neither newly_created nor needs_recovery.
C2_CompleteItemDropped ==
    [][\A h \in Handlers :
          (/\ LooksUpStored(h)
           /\ has_details(platform, Load(hsnap[h], PersistItem(h)))
           /\ tasks[PersistItem(h)] # <<>>)
          => /\ hrec'[h] = hrec[h]
             /\ hnew'[h] = hnew[h]]_vars

C2_Witness ==
    \E h \in Handlers :
        /\ AtLookup(h)
        /\ favorite_items[PersistItem(h)].details = "full"
        /\ \E k \in 1..Len(tasks[PersistItem(h)]) : tasks[PersistItem(h)][k] = "success"

\* C3: persisting a brief item whose external id is already stored keeps
\* the single stored row and never classifies the item as newly created.
C3_IdempotentPersist ==
    [][\A h \in Handlers :
          (/\ AtLookup(h)
           /\ Steps(h)
           /\ favorite_items[PersistItem(h)].rows > 0)
          => /\ hpc'[h] = "lookup"
             /\ hnew'[h] = hnew[h]
             /\ favorite_items'[PersistItem(h)].rows = 1]_vars

C3_Witness ==
    \E h \in Handlers :
        /\ hpc[h] = "first_sync"
        /\ hitems[h] = <<"A1">>
        /\ hnew[h] = <<>>
        /\ favorite_items["A1"].rows = 1

\* C4: the attempt counter of an item never decreases, and no detail
\* fetch is issued, by sync_details or by a deferred retry, for an item
\* without details whose stored counter has reached max_attempts.
C4_BoundedRetries ==
    [][platform = "xiaohongshu" =>
          \A i \in ItemIds :
              /\ favorite_items'[i].attempts >= favorite_items[i].attempts
              /\ (/\ favorite_items[i].attempts >= max_attempts
                  /\ favorite_items[i].details # "full")
                 => ~FetchIssued(i)]_vars

\* C5: a run whose persist step yields more newly created items than the
\* threshold ends at the guard: it issues no detail fetch and creates no
\* Task, whatever its needs_recovery list holds; a run with at most that
\* many (and something to process) goes on to details sync, and from there
\* to task creation with the items that have details.
C5_FirstSyncSuppression ==
    /\ [](\A h \in Handlers :
             /\ hpc[h] \in {"sync", "fetching", "tasks", "create_task"}
                   => /\ Len(hnew[h]) <= first_sync_threshold
                      /\ total_count(h) > 0
             /\ Len(hnew[h]) > first_sync_threshold => hrun[h] = NoRun)
    /\ [][\A h \in Handlers :
             /\ (hpc[h] = "first_sync" /\ Steps(h)) =>
                   /\ (Len(hnew[h]) > first_sync_threshold)
                         => /\ hpc'[h] = "first_sync_skip"
                            /\ favorite_items' = favorite_items
                            /\ tasks' = tasks
                   /\ (Len(hnew[h]) <= first_sync_threshold /\ total_count(h) > 0)
                         => hpc'[h] = "sync"
             /\ (hpc[h] = "sync" /\ hpc'[h] \in Returned) => hwith[h] = <<>>]_vars

C5_Witness ==
    \E h \in Handlers :
        /\ hpc[h] = "first_sync_skip"
        /\ Len(hnew[h]) > first_sync_threshold
        /\ hrec[h] # <<>>
        /\ \A i \in ItemIds : tasks[i] = <<>> /\ favorite_items[i].details = "none"

\* C6: however two handlers interleave on the same new external id, one
\* row is stored, and the item enters a newly_created list only in the
\* step that stores that row.
C6_ConcurrentPersist ==
    /\ [](\A i \in ItemIds : favorite_items[i].rows <= 1)
    /\ [][\A h \in Handlers, i \in ItemIds :
             hnew'[h] = Append(hnew[h], i) =>
                 favorite_items[i].rows = 0 /\ favorite_items'[i].rows = 1]_vars

C6_Witness ==
    \E h, g \in Handlers :
        /\ h # g
        /\ hpc[h] = "first_sync" /\ hitems[h] = <<"A1">> /\ total_count(h) = 0
        /\ hnew[g] = <<"A1">>
        /\ tasks["A1"] = <<>> /\ favorite_items["A1"].details # "full"

\* C8: an item for which a Task of any status exists when the gate checks
\* it is skipped, and the Task rows stay as they are.
C8_GateSkipsExisting ==
    [][\A h \in Handlers :
          (/\ hpc[h] = "tasks" /\ hidx[h] <= Len(hwith[h])
           /\ Steps(h)
           /\ tasks[hwith[h][hidx[h]]] # <<>>)
          => /\ hpc'[h] = "tasks"
             /\ hidx'[h] = hidx[h] + 1
             /\ tasks' = tasks]_vars

C8_Witness ==
    \E h \in Handlers :
        /\ hpc[h] = "tasks" /\ hidx[h] <= Len(hwith[h])
        /\ has_details(platform, hsnap[h][hwith[h][hidx[h]]])
        /\ \E k \in 1..Len(tasks[hwith[h][hidx[h]]]) :
               tasks[hwith[h][hidx[h]]][k] \in {"success", "failure"}

\* C9: when persist meets a stored item that has details and no Task at
\* all, the recovery predicate is true and the item enters needs_recovery.
C9_DetailsWithoutTaskRecovered ==
    [][\A h \in Handlers :
          (/\ LooksUpStored(h)
           /\ has_details(platform, Load(hsnap[h], PersistItem(h)))
           /\ tasks[PersistItem(h)] = <<>>)
          => hrec'[h] = Append(hrec[h], PersistItem(h))]_vars

C9_Witness ==
    \E h \in Handlers :
        /\ AtLookup(h)
        /\ favorite_items[PersistItem(h)].details = "full"
        /\ has_details(platform, Load(hsnap[h], PersistItem(h)))
        /\ tasks[PersistItem(h)] = <<>>

\* C10: for a stored Xiaohongshu item without details the recovery
\* predicate is true exactly when its attempt counter is below the
\* syncer's max_attempts or its last attempt is more than 24 hours old.
C10_RecoveryUsesConfiguredMax ==
    [][platform = "xiaohongshu" =>
          \A h \in Handlers :
              (/\ LooksUpStored(h)
               /\ ~has_details(platform, Load(hsnap[h], PersistItem(h))))
              => LET item == Load(hsnap[h], PersistItem(h))
                 IN  (hrec'[h] = Append(hrec[h], PersistItem(h)))
                       <=> (item.attempts < max_attempts \/ item.last = "old")]_vars

\* C7: for every stream id at most one polling loop is reading events
\* with no cancellation pending, in every state that starts, stops and loop
\* terminations can reach.
Polling(l) == lstate[l] = "reading" /\ ~lcancel[l]

C7_AtMostOneLoop ==
    \A s \in StreamIds : Cardinality({l \in Loops : lstream[l] = s /\ Polling(l)}) <= 1

\* C11: the gate lets an item through to the insert, and a Task row is
\* added, only for an item whose stored detail record is non-empty; in a
\* batch that mixes both kinds only the items with details get a Task.
C11_NoTaskWithoutDetails ==
    [][\A h \in Handlers :
          /\ (hpc[h] = "tasks" /\ hpc'[h] = "create_task")
                => favorite_items[hwith[h][hidx[h]]].details = "full"
          /\ \A i \in ItemIds :
                Len(tasks'[i]) > Len(tasks[i]) => favorite_items[i].details = "full"]_vars

\* C12: a run that finds every item of its event stored with non-empty
\* details and a Task returns an empty PersistResult from persist and ends
\* there: no detail fetch is issued, no Task is created, nothing stored
\* changes.
RedeliveredComplete(h) ==
    \A n \in 1..Len(hitems[h]) :
        /\ hsnap[h][hitems[h][n]].details = "full"
        /\ tasks[hitems[h][n]] # <<>>

C12_DuplicateDelivery ==
    /\ [](\A h \in Handlers :
             (hpc[h] = "first_sync" /\ RedeliveredComplete(h))
                => /\ hnew[h] = <<>>
                   /\ hrec[h] = <<>>
                   /\ hrun[h] = NoRun)
    /\ [][\A h \in Handlers :
             (hpc[h] = "first_sync" /\ RedeliveredComplete(h) /\ Steps(h))
                => /\ hpc'[h] = "no_items"
                   /\ favorite_items' = favorite_items
                   /\ tasks' = tasks]_vars

C12_Witness ==
    \E h \in Handlers :
        /\ hpc[h] = "no_items"
        /\ favorite_items["A1"].details = "full"
        /\ \E k \in 1..Len(tasks["A1"]) : tasks["A1"][k] = "success"

\* C13: when a run on an event ends, every stored item that has non-empty
\* details has a Task, the items the event did not carry included.
C13_RecoveredByNextEvent ==
    [][\A h \in Handlers :
          (hpc[h] \notin Returned /\ hpc'[h] \in {"done", "no_items"})
             => \A i \in ItemIds :
                   (/\ \A n \in 1..Len(hitems[h]) : hitems[h][n] # i
                    /\ favorite_items[i].details = "full")
                   => tasks'[i] # <<>>]_vars

\* The run of handler h is on an event of the one item i, which it stored
\* as new.
OneNewItem(h, i) == hitems[h] = <<i>> /\ hnew[h] = <<i>>

C15_NoExceptionEscapes ==
    \A h \in Handlers : hpc[h] # "raised"

\* C16: a read timeout leaves the loop reading and the live set as it is;
\* a loop that ends on any other exception removes its stream id from the
\* live set; an id enters the live set only by a start_stream call, which
\* creates a new loop for it.
C16_TimeoutContinuesCrashEnds ==
    [][/\ \A l \in Loops :
             /\ LoopReadTimeout(l) => lstate'[l] = "reading" /\ _tasks' = _tasks
             /\ (lstate[l] \in {"opening", "started", "reading"} /\ ~lcancel[l]
                   /\ lstate'[l] = "finished")
                   => _tasks'[lstream[l]] = NoLoop
       /\ \A s \in StreamIds :
             (_tasks[s] = NoLoop /\ _tasks'[s] # NoLoop)
                => /\ lstate[_tasks'[s]] = "unused"
                   /\ lstate'[_tasks'[s]] = "created"
                   /\ lstream'[_tasks'[s]] = s]_vars

\* The stream's loop crashed, the stream was started again and its new
\* loop is reading, where a read timeout can occur.
C16_Witness ==
    \E l, m \in Loops :
        /\ lstate[l] = "reading"
        /\ ~lcancel[l]
        /\ _tasks[lstream[l]] = l
        /\ lstate[m] = "finished"
        /\ lstream[m] = lstream[l]

\* C17: stop_stream on an id of the live set cancels the id's loop, takes
\* the id out of the live set and issues a delete for the remote plugin
\* task that was started for that loop; on any other id it changes nothing.
C17_StopStream ==
    [][\A s \in StreamIds :
          StopStream(s) =>
             IF _tasks[s] # NoLoop
             THEN /\ _tasks'[s] = NoLoop
                  /\ lstate[_tasks[s]] # "finished" => lcancel'[_tasks[s]]
                  /\ RemoteTaskId(_tasks[s]) \in remote_tasks
                        => RemoteTaskId(_tasks[s]) \in deletes'
             ELSE UNCHANGED vars]_vars

C19_SyncReturnsOnlyDetailed ==
    \A h \in Handlers :
        (platform = "xiaohongshu" /\ hpc[h] = "tasks")
           => \A n \in 1..Len(hwith[h]) : hsnap[h][hwith[h][n]].details = "full"

\* The runs that are inside the llm_chat executor.
Executing == {t \in Runs : runpc[t] = [at |-> "executing", executor |-> "llm_chat"]}

\* C20: at most one run is inside the llm_chat executor at any time,
\* whatever executor type its workshop names, and every permit is either
\* free or held by a run that is inside the executor: a run that has left
\* the executor, by return or by raise, holds none.
C20_SerialExecutor ==
    /\ Cardinality(Executing) <= 1
    /\ semaphore + Cardinality(Executing) = 1

\* One run is inside the executor, a second one waits for the permit, and
\* an earlier one has left the executor by raising.
C20_Witness ==
    \E t, u, v \in Runs :
        /\ runpc[t] = [at |-> "executing", executor |-> "llm_chat"]
        /\ runpc[u] = [at |-> "acquiring", executor |-> "llm_chat"]
        /\ runpc[v].at = "failure"

\* C21: the collection id stored on a newly created Content Item is the
\* collection_id of the event's injected params.
C21_CollectionFromParams ==
    ppc = "persisted"
       => \A id \in BriefIds :
             collection_id_of[id] # "none" => collection_id_of[id] = event.collection_id

\* The external ids of the raw dicts of a list that carry one, in order.
IdsOf(raws) ==
    LET with_id == SelectSeq(raws, LAMBDA d : d.id # "")
    IN  [n \in 1..Len(with_id) |-> with_id[n].id]

\* The external ids of the parsed brief items that come from a raw dict
\* with an id, in order.
ParsedIds ==
    LET from_id == SelectSeq(event_data.items, LAMBDA b : BriefId(platform, b) \in ItemIds)
    IN  [n \in 1..Len(from_id) |-> BriefId(platform, from_id[n])]

\* The list of the event the parser is to take on a usable result.
TakenList == IF event.added.present /\ event.added.data # <<>> THEN event.added.data ELSE event.data

\* C22: on either platform a raw dict without an external id yields no
\* brief item and no Content Item, and the dicts that have one are all
\* parsed.
C22_MissingIdDropped ==
    (ppc \in {"no_items", "parsed", "persisted"} /\ event.shape = "ok" /\ event.success)
       => /\ \A n \in 1..Len(event_data.items) :
                BriefId(platform, event_data.items[n]) \in ItemIds
          /\ ParsedIds = IdsOf(TakenList)
          /\ collection_id_of["None"] = "none"

\* C23: parse returns no items and does not raise when the result says
\* success = false, when payload or result is missing, or when payload,
\* result or data is not a map.
C23_UnparsableIsEmpty ==
    (/\ ppc # "idle"
     /\ \/ event.shape \in {"no_payload", "payload_not_map", "no_result", "result_not_map",
                            "data_not_map"}
        \/ event.shape = "ok" /\ ~event.success)
       => /\ event_data.items = <<>>
          /\ ~event_data.raised
          /\ ppc = "no_items"

\* A Xiaohongshu event that says success = false and carries items all the
\* same has been parsed.
C23_Witness ==
    /\ platform = "xiaohongshu"
    /\ ppc = "no_items"
    /\ event.shape = "ok"
    /\ ~event.success
    /\ event.added.data # <<>>
    /\ event.data # <<>>

\* C24 as stated: whenever the data has an added sub-list, the items are
\* those of the sub-list.
C24_AddedWheneverPresent ==
    (ppc # "idle" /\ event.shape = "ok" /\ event.success /\ event.added.present)
       => ParsedIds = IdsOf(event.added.data)

\* C24, amended: the items are those of the added sub-list when the data
\* has one and it is not empty, and those of the full list otherwise.
C24_AddedWhenNotEmpty ==
    (ppc # "idle" /\ event.shape = "ok" /\ event.success)
       => ParsedIds = IdsOf(IF event.added.present /\ event.added.data # <<>>
                            THEN event.added.data ELSE event.data)

\* Both lists are there with different items, and the items parsed are
\* those of the added sub-list.
C24_Witness ==
    /\ ppc = "persisted"
    /\ event.added.data = <<[id |-> "A1", collection_id |-> ""]>>
    /\ event.data = <<[id |-> "B1", collection_id |-> ""], [id |-> "A1", collection_id |-> ""]>>
    /\ ParsedIds = <<"A1">>

\* C25: the first-sync check ends the run as a first sync exactly when
\* the number of newly created items is greater than the threshold the
\* orchestrator was constructed with, whatever that threshold is, 0 included.
C25_FirstSyncAtConfiguredThreshold ==
    [][\A h \in Handlers :
          (hpc[h] = "first_sync" /\ total_count(h) > 0 /\ Steps(h))
             => (hpc'[h] = "first_sync_skip" <=> Len(hnew[h]) > first_sync_threshold_arg)]_vars

\* C26: with handlers and deferred retries running concurrently for the
\* same item, the stored attempt counter counts the detail fetches issued
\* and the fetches never number more than max_attempts: every fetch issued
\* for an item finds its stored counter below max_attempts and raises it by
\* exactly one.
C26_CounterCountsFetches ==
    [][platform = "xiaohongshu" =>
          \A i \in ItemIds :
              FetchIssued(i)
                 => /\ favorite_items[i].attempts < max_attempts
                    /\ favorite_items'[i].attempts = favorite_items[i].attempts + 1]_vars

\* C27: a deferred retry that reads the item after another deferred retry
\* has stored non-empty details for it is a no-op: it issues no detail
\* fetch and leaves the item's attempt counter, last-attempt time and
\* details as they are.
C27_SecondRetryNoOp ==
    [][\A r \in Retries :
          (/\ rstate[r] = "loaded"
           /\ rsnap[r].details = "full"
           /\ rstate'[r] # "loaded")
             => /\ ~FetchIssued(ritem[r])
                /\ favorite_items'[ritem[r]] = favorite_items[ritem[r]]]_vars

\* C28: while the fetches of an item keep failing, a deferred retry is
\* scheduled after each failure until the attempt counter reaches
\* max_attempts: when the fetch of a deferred retry fails with the counter
\* still below max_attempts, a deferred retry for the item is pending
\* afterwards.
C28_RetryRescheduled ==
    [][\A r \in Retries :
          (/\ RetryFetchFails(r)
           /\ favorite_items[ritem[r]].attempts < max_attempts
           /\ favorite_items[ritem[r]].details # "full")
             => \E next \in Retries :
                   /\ rstate'[next] \in {"sleeping", "due"}
                   /\ ritem'[next] = ritem[r]]_vars

\* Nothing is running and nothing is pending: no handler is inside
\* handle_event and no deferred retry is scheduled or at work.  The state
\* changes again only when a further event arrives.
Quiescent ==
    /\ \A h \in Handlers : hpc[h] \in Returned
    /\ \A r \in Retries : rstate[r] \in {"free", "off"}

\* C29: every Content Item that has obtained non-empty details, through a
\* deferred retry included, is handed to the AI stage exactly once: when
\* all the work the events have set off is over, each item with non-empty
\* details has exactly one Task.
C29_DetailedItemHandedOnce ==
    Quiescent => \A i \in ItemIds : favorite_items[i].details = "full" => Len(tasks[i]) = 1

\* C30: two detail fetches for the same item are never issued less than
\* retry_delay apart: no fetch is issued, by sync_details or by a deferred
\* retry, for an item whose last attempt is more recent than retry_delay.
C30_MinimumDelayBetweenFetches ==
    [][platform = "xiaohongshu" =>
          \A i \in ItemIds : FetchIssued(i) => favorite_items[i].last # "recent"]_vars

\* C31: the bookkeeping of a detail-fetch attempt is in the store when the
\* external call is issued: the step that issues a fetch for an item has
\* committed a stored attempt counter that is one higher than before and a
\* stored last-attempt time of now.
C31_AttemptCommittedBeforeFetch ==
    [][platform = "xiaohongshu" =>
          \A i \in ItemIds :
              FetchIssued(i)
                 => /\ favorite_items'[i].last = "recent"
                    /\ favorite_items'[i].attempts = favorite_items[i].attempts + 1]_vars

\* C32: a run passes at most first_sync_threshold different items to
\* details sync and task creation, whether the items are new or are items
\* recovered on redelivery.
C32_AtMostThresholdItemsProcessed ==
    \A h \in Handlers :
        hpc[h] \in {"sync", "fetching", "tasks", "create_task"}
           => Cardinality({all_items(h)[n] : n \in 1..Len(all_items(h))}) <= first_sync_threshold

\* C33: in the result of every persist call, batches that repeat an
\* external id included, no item occurs twice in all_items: newly_created
\* and needs_recovery have no item in common and neither repeats one.
C33_AllItemsDuplicateFree ==
    \A h \in Handlers :
        \A m, n \in 1..Len(all_items(h)) : all_items(h)[m] = all_items(h)[n] => m = n

\* C34: every raw event a subscription loop of the running application
\* reads is handed to the platform orchestrator: the detached task created
\* for it runs a handler that calls the orchestrator chosen by plugin id.
C34_EventsReachOrchestrator ==
    [][\A l \in Loops :
          LoopEvent(l)
             => /\ Len(dispatched') = Len(dispatched) + 1
                /\ CallsOrchestrator(dispatched'[Len(dispatched')].handler)]_vars

\* C35: an item without details whose attempt counter has reached
\* max_attempts and whose last attempt is more than 24 hours old gets a new
\* detail fetch from the run of an event that contains it: when details
\* sync comes to the item, a fetch is issued.
C35_NewAttemptAfterADay ==
    [][\A h \in Handlers :
          (/\ hpc[h] = "sync"
           /\ hidx[h] <= Len(all_items(h))
           /\ Steps(h)
           /\ LET i == all_items(h)[hidx[h]]
              IN  /\ hsnap[h][i] = favorite_items[i]
                  /\ ~has_details(platform, favorite_items[i])
                  /\ favorite_items[i].attempts >= max_attempts
                  /\ favorite_items[i].attempts >= RecoveryMaxAttempts(platform)
                  /\ favorite_items[i].last = "old")
             => FetchIssued(all_items(h)[hidx[h]])]_vars

\* C36: with concurrent handlers persisting new items by the same author,
\* at most one Author row exists per (platform, external user id).
C36_OneAuthorRow == \A u \in UserIds : authors[u] <= 1

\* C37: when a subscription whose remote plugin task has been started has
\* left the live set, whether by a stop, by a crash of its loop or by the
\* manager shutting down, a delete addressed to the id of that remote task
\* has been issued.
C37_RemoteTaskDeleted ==
    \A l \in Loops :
        (lstate[l] = "finished" /\ RemoteTaskId(l) \in remote_tasks)
           => RemoteTaskId(l) \in deletes


\* C38: a stop of a live subscription cancels the polling loop of that
\* subscription and nothing else: the events already handed to handler tasks,
\* the position of every handler run and every scheduled retry timer are the
\* same after the stop as before it, and no other loop gets a cancellation.
C38_StopCancelsOnlyItsLoop ==
    [][(StopStream("s1") /\ _tasks["s1"] # NoLoop)
          => /\ dispatched' = dispatched
             /\ hpc' = hpc
             /\ hitems' = hitems
             /\ rstate' = rstate
             /\ ritem' = ritem
             /\ \A l \in Loops : lcancel'[l] # lcancel[l] => l = _tasks["s1"]]_vars

\* The subscription has been stopped and no loop is left alive, a handler
\* task had received its event, and the retry that its run scheduled is in
\* the middle of its fetch.
C38_Witness ==
    /\ deletes # {}
    /\ _tasks["s1"] = NoLoop
    /\ \A l \in Loops : lstate[l] \in {"unused", "finished"}
    /\ dispatched # <<>>
    /\ rstate["r1"] = "fetching"


====
